---- MODULE Spec2Model ----
(***************************************************************************)
(* A model of the Paragraph block tool for Editor.js.                      *)
(*                                                                         *)
(* The repository holds the class twice: the source (src/index.js) and the *)
(* minified bundle built from an other revision of it.  The two differ in  *)
(* drawView and in _toggleTune, so the variable build says which of them a *)
(* page has loaded.                                                        *)
(*                                                                         *)
(* Markup is a sequence of tokens.  A token is one white-space character,  *)
(* or a line-break tag as an author may write it ("<BR>") or as the        *)
(* browser serialises it ("<br>").  Writing innerHTML parses the markup    *)
(* and reading it serialises the nodes, so "<BR>" reads back as "<br>".    *)
(***************************************************************************)
EXTENDS Naturals, Sequences, FiniteSets, TLC

\* Bounds of the model.
MaxLen == 2
MaxObjs == 3

VARIABLES build, phase, _placeholder, _preserveBlank, _data, heap, _element,
          panel, last

vars == <<build, phase, _placeholder, _preserveBlank, _data, heap, _element,
          panel, last>>

-----------------------------------------------------------------------------
(* JavaScript values *)

undefined == "undefined"
null == "null"

\* A string of markup, or the undefined / null value in its place.
Undef == [t |-> "undefined"]
Null == [t |-> "null"]
Str(s) == [t |-> "string", v |-> s]

\* ToBoolean of an alignment, placeholder or boolean value.
JSTruthy(v) == v \notin {undefined, null, "", "false"}

\* ToBoolean of a text value: undefined, null and "" are falsy.
TextTruthy(x) == x.t = "string" /\ x.v # <<>>

Builds == {"src", "dist"}

-----------------------------------------------------------------------------
(* The DOM: markup, parsing and serialisation *)

WhiteSpace == {" "}
Tokens == {" ", "<BR>", "<br>"}

SeqsUpTo(S, n) == UNION {[1..k -> S] : k \in 0..n}

\* Any markup a caller may pass.
Texts == SeqsUpTo(Tokens, MaxLen)

\* The HTML fragment parser: one node per token.
ParseHTML(s) ==
    [i \in 1..Len(s) |->
        IF s[i] \in {"<BR>", "<br>"}
        THEN [nodeType |-> "element", data |-> "br"]
        ELSE [nodeType |-> "text", data |-> s[i]]]

\* The HTML fragment serialiser.
SerializeHTML(nodes) ==
    [i \in 1..Len(nodes) |->
        IF nodes[i].nodeType = "element" THEN "<br>" ELSE nodes[i].data]

\* element.innerHTML = s, read back.
SetInnerHTML(s) == SerializeHTML(ParseHTML(s))

\* Markup as an element's innerHTML can read.
Markups == {SetInnerHTML(s) : s \in Texts}

IsTextNode(n) == n.nodeType = "text"

\* element.textContent: the data of the text nodes, in order.
TextContent(el) ==
    LET texts == SelectSeq(ParseHTML(el.innerHTML), IsTextNode)
    IN [i \in 1..Len(texts) |-> texts[i].data]

RECURSIVE TrimStart(_)
TrimStart(s) ==
    IF s # <<>> /\ Head(s) \in WhiteSpace THEN TrimStart(Tail(s)) ELSE s

RECURSIVE TrimEnd(_)
TrimEnd(s) ==
    IF s # <<>> /\ s[Len(s)] \in WhiteSpace
    THEN TrimEnd(SubSeq(s, 1, Len(s) - 1))
    ELSE s

\* String.prototype.trim
Trim(s) == TrimEnd(TrimStart(s))

NoElement == [nodeName |-> "undefined"]

-----------------------------------------------------------------------------
(* The class Paragraph *)

DEFAULT_PLACEHOLDER == ""

ALIGNMENTS == {"left", "center", "right"}

DEFAULT_ALIGNMENT == "left"

\* The names of the settings, in order.
settings == <<"left", "center", "right">>

\* this._CSS, with the class names the host's api.styles gives.
CSS ==
    [block |-> "cdx-block", wrapper |-> "ce-paragraph",
     settingsWrapper |-> "cdx-paragraph-settings",
     settingsButton |-> "cdx-settings-button",
     settingsButtonActive |-> "cdx-settings-button--active"]

\* The object literal {}.
EmptyObject == [text |-> Undef, alignment |-> undefined]

\* The smallest address no object of h has.
Alloc(h) ==
    CHOOSE i \in 1..MaxObjs :
        i \notin DOMAIN h /\ \A j \in 1..(i - 1) : j \in DOMAIN h

\* h without the objects nobody refers to.
Collect(h, refs) == [i \in (DOMAIN h) \cap refs |-> h[i]]

\* The instance's fields, with the heap its records live in.
This ==
    [_placeholder |-> _placeholder, _preserveBlank |-> _preserveBlank,
     _data |-> _data, heap |-> heap, _element |-> _element]

\* What a call leaves: the instance, whether it threw, the object it
\* returned (0: none) and the primitive value it returned.
Result(s, threw, ret, val) ==
    [this |-> s, threw |-> threw, ret |-> ret, val |-> val]

\* get data() that returns the stored record without reading the element.
get_data_noSync(s) ==
    Result(s, FALSE, s._data, undefined)

\* get data(): the element's markup goes into the stored record's text.
get_data(s) ==
    Result([s EXCEPT !.heap[s._data].text = Str(s._element.innerHTML)],
           FALSE, s._data, undefined)

\* set data(d) that leaves the record and the element alone when d is null
\* or undefined.
set_data_keep(s, d) ==
    IF d = 0
    THEN Result(s, FALSE, 0, undefined)
    ELSE LET h == s.heap
             text == IF TextTruthy(h[d].text) THEN h[d].text.v ELSE <<>>
         IN Result([s EXCEPT !._data = d,
                             !._element.innerHTML = SetInnerHTML(text)],
                   FALSE, 0, undefined)

\* set data(d): d is the address of an object, or 0 for null / undefined.
set_data(s, d) ==
    LET fresh == Alloc(s.heap)
        h == IF d = 0 THEN s.heap @@ (fresh :> EmptyObject) ELSE s.heap
        ref == IF d = 0 THEN fresh ELSE d
        text == IF TextTruthy(h[ref].text) THEN h[ref].text.v ELSE <<>>
    IN Result([s EXCEPT !._data = ref, !.heap = h,
                        !._element.innerHTML = SetInnerHTML(text)],
              FALSE, 0, undefined)

\* The DIV drawView() creates.
NewDiv ==
    [nodeName |-> "DIV", innerHTML |-> <<>>,
     classList |-> {CSS.wrapper, CSS.block}]

\* drawView() of the source: el is the element returned.
drawView_src(s) == [this |-> s, threw |-> FALSE, el |-> NewDiv]

\* drawView() of the bundle: before it returns the new DIV it adds the
\* alignment class to this._element, the element the instance holds when
\* drawView is called, and throws a TypeError when it holds none.
drawView_dist(s) ==
    IF s._element = NoElement
    THEN [this |-> s, threw |-> TRUE, el |-> NoElement]
    ELSE LET g == get_data(s).this
         IN [this |-> [g EXCEPT !._element.classList =
                           @ \cup {g.heap[g._data].alignment}],
             threw |-> FALSE, el |-> NewDiv]

\* drawView() of build b.
drawView(b, s) == IF b = "src" THEN drawView_src(s) ELSE drawView_dist(s)

\* The alignment stored were data.alignment not looked up in ALIGNMENTS.
ResolveAlignment_unchecked(data, config) ==
    IF JSTruthy(data.alignment)
    THEN data.alignment
    ELSE IF JSTruthy(config.defaultAlignment)
         THEN config.defaultAlignment
         ELSE DEFAULT_ALIGNMENT

\* The alignment stored were config.defaultAlignment to come first.
ResolveAlignment_configFirst(data, config) ==
    IF JSTruthy(config.defaultAlignment)
    THEN config.defaultAlignment
    ELSE IF data.alignment \in ALIGNMENTS
         THEN data.alignment
         ELSE DEFAULT_ALIGNMENT

\* The alignment the constructor stores.
ResolveAlignment(data, config) ==
    IF data.alignment \in ALIGNMENTS /\ JSTruthy(data.alignment)
    THEN data.alignment
    ELSE IF JSTruthy(config.defaultAlignment)
         THEN config.defaultAlignment
         ELSE DEFAULT_ALIGNMENT

\* The constructor, were it to store the record without the data setter.
constructor_noSetter(b, data, config) ==
    LET s1 == [_placeholder |-> IF JSTruthy(config.placeholder)
                                THEN config.placeholder
                                ELSE DEFAULT_PLACEHOLDER,
               _preserveBlank |-> undefined,
               _data |-> 1,
               heap |-> (1 :> EmptyObject),
               _element |-> NoElement]
        dv == drawView(b, s1)
    IN IF dv.threw
       THEN Result(dv.this, TRUE, 0, undefined)
       ELSE LET s2 == [dv.this EXCEPT
                          !._element = dv.el,
                          !._preserveBlank =
                              IF config.preserveBlank # undefined
                              THEN config.preserveBlank
                              ELSE "false"]
                lit == Alloc(s2.heap)
                obj == [text |-> IF TextTruthy(data.text)
                                 THEN data.text ELSE Str(<<>>),
                        alignment |-> ResolveAlignment(data, config)]
            IN Result([s2 EXCEPT !.heap = @ @@ (lit :> obj), !._data = lit],
                      FALSE, 0, undefined)

\* new Paragraph({data, config, api}) of build b.
constructor(b, data, config) ==
    LET s1 == [_placeholder |-> IF JSTruthy(config.placeholder)
                                THEN config.placeholder
                                ELSE DEFAULT_PLACEHOLDER,
               _preserveBlank |-> undefined,
               _data |-> 1,
               heap |-> (1 :> EmptyObject),
               _element |-> NoElement]
        dv == drawView(b, s1)
    IN IF dv.threw
       THEN Result(dv.this, TRUE, 0, undefined)
       ELSE LET s2 == [dv.this EXCEPT
                          !._element = dv.el,
                          !._preserveBlank =
                              IF config.preserveBlank # undefined
                              THEN config.preserveBlank
                              ELSE "false"]
                lit == Alloc(s2.heap)
                obj == [text |-> IF TextTruthy(data.text)
                                 THEN data.text ELSE Str(<<>>),
                        alignment |-> ResolveAlignment(data, config)]
            IN set_data([s2 EXCEPT !.heap = @ @@ (lit :> obj)], lit)


\* merge(data) with the two texts the other way round.
merge_prepend(s, data) ==
    LET g1 == get_data(s).this
        newData == [text |-> Str(data.text.v \o g1.heap[g1._data].text.v)]
        g2 == get_data(g1).this
        g3 == [g2 EXCEPT !.heap[g2._data].text = newData.text]
    IN set_data(g3, g3._data)

\* merge(data): data.text is a string.
merge(s, data) ==
    LET g1 == get_data(s).this
        newData == [text |-> Str(g1.heap[g1._data].text.v \o data.text.v)]
        g2 == get_data(g1).this
        g3 == [g2 EXCEPT !.heap[g2._data].text = newData.text]
    IN set_data(g3, g3._data)

\* validate(savedData) without the trim.
validate_noTrim(s, savedData) ==
    Result(s, FALSE, 0,
           IF savedData.text.v = <<>> /\ ~JSTruthy(s._preserveBlank)
           THEN "false" ELSE "true")

\* validate(savedData): val is the boolean returned.
validate(s, savedData) ==
    Result(s, FALSE, 0,
           IF Trim(savedData.text.v) = <<>> /\ ~JSTruthy(s._preserveBlank)
           THEN "false" ELSE "true")

\* save(toolsContent) that returns a copy of the stored record.
save_copy(s, toolsContent) ==
    LET g == get_data(s).this
        g2 == [g EXCEPT !.heap[g._data].text = Str(toolsContent.innerHTML)]
        copy == Alloc(g2.heap)
    IN Result([g2 EXCEPT !.heap = @ @@ (copy :> g2.heap[g2._data])],
              FALSE, copy, undefined)

\* save(toolsContent): toolsContent is an element.
save(s, toolsContent) ==
    LET g == get_data(s).this
    IN Result([g EXCEPT !.heap[g._data].text = Str(toolsContent.innerHTML)],
              FALSE, g._data, undefined)

\* onPaste(event) that stores the pasted record in place of the stored one.
onPaste_replace(s, detail) ==
    LET data == [text |-> Str(detail.innerHTML), alignment |-> undefined]
        ref == Alloc(s.heap)
    IN set_data([s EXCEPT !.heap = @ @@ (ref :> data)], ref)

\* onPaste(event): detail is event.detail.data, an element.
onPaste(s, detail) ==
    LET data == [text |-> Str(detail.innerHTML)]
        g == get_data(s).this
        g2 == [g EXCEPT !.heap[g._data].text = data.text]
    IN set_data(g2, g2._data)

\* onKeyUp(e): code is e.code.
onKeyUp(s, code) ==
    IF code # "Backspace" /\ code # "Delete"
    THEN Result(s, FALSE, 0, undefined)
    ELSE IF TextContent(s._element) = <<>>
         THEN Result([s EXCEPT !._element.innerHTML = SetInnerHTML(<<>>)],
                     FALSE, 0, undefined)
         ELSE Result(s, FALSE, 0, undefined)

\* The buttons that carry the active class after
\* classList.toggle(active, name === this.data.alignment) on each of them.
ActiveButtons(s) ==
    {settings[i] : i \in {j \in 1..Len(settings) :
                            settings[j] = s.heap[s._data].alignment}}

\* renderSettings(): the wrapper with its three buttons, in panel's place.
renderSettings(s) ==
    LET g == get_data(s).this
    IN [this |-> g, threw |-> FALSE, ret |-> 0, val |-> undefined,
        panel |-> [rendered |-> TRUE, active |-> ActiveButtons(g)]]

\* _toggleTune(tune) of the source: it stores the alignment, then reads
\* this.wrapper.classList; the instance has no wrapper, so that is a
\* TypeError.
_toggleTune_src(s, tune) ==
    LET g == get_data(s).this
    IN Result([g EXCEPT !.heap[g._data].alignment = tune],
              TRUE, 0, undefined)

\* _toggleTune(tune) of the bundle: it stores the alignment, removes the
\* three alignment classes from the element and adds the stored one.
_toggleTune_dist(s, tune) ==
    LET g == get_data(s).this
        g2 == [g EXCEPT !.heap[g._data].alignment = tune]
        g3 == get_data(g2).this
    IN Result([g3 EXCEPT !._element.classList =
                  (@ \ {settings[i] : i \in 1..Len(settings)})
                  \cup {g3.heap[g3._data].alignment}],
              FALSE, 0, undefined)

\* _toggleTune(tune) of build b.
_toggleTune(b, s, tune) ==
    IF b = "src" THEN _toggleTune_src(s, tune) ELSE _toggleTune_dist(s, tune)

\* The click listener of the button at index of panel p.
click(b, s, p, index) ==
    LET t == _toggleTune(b, s, settings[index])
    IN IF t.threw
       THEN [this |-> t.this, threw |-> TRUE, ret |-> 0, val |-> undefined,
             panel |-> p]
       ELSE LET g == get_data(t.this).this
            IN [this |-> g, threw |-> FALSE, ret |-> 0, val |-> undefined,
                panel |-> [p EXCEPT !.active = ActiveButtons(g)]]

-----------------------------------------------------------------------------
(* The host: what it passes and what it keeps *)

\* data.text, data.alignment and the fields of config as a host may pass them.
DataTexts == {Undef, Null} \cup {Str(t) : t \in Texts}
DataAlignments == {undefined, null, "left", "center", "right", "bogus"}
ConfigPlaceholders == {undefined, null, "", "Type here"}
ConfigPreserveBlanks == {undefined, null, "true", "false"}
ConfigDefaultAlignments == {undefined, null, "left", "center", "right", "bogus"}

NoPanel == [rendered |-> FALSE, active |-> {}]

\* The record of the last call: its name, its arguments, what the state was
\* before it (for the calls said to keep it) and its outcome.
Call(op, arg, pre, r) ==
    [op |-> op, arg |-> arg, pre |-> pre,
     threw |-> r.threw, ret |-> r.ret, val |-> r.val]

NoPre == [alignment |-> undefined, innerHTML |-> <<>>]

\* The stored alignment and the element's markup before a call.
Pre == [alignment |-> heap[_data].alignment, innerHTML |-> _element.innerHTML]

\* The stored alignment before a call.
PreAlignment == [alignment |-> heap[_data].alignment, innerHTML |-> <<>>]

\* The instance's fields after a call; the heap keeps the stored record and
\* the object the call returned.
Assign(r) ==
    /\ _placeholder' = r.this._placeholder
    /\ _preserveBlank' = r.this._preserveBlank
    /\ _data' = r.this._data
    /\ _element' = r.this._element
    /\ heap' = Collect(r.this.heap, {r.this._data, r.ret})

Init ==
    /\ build \in Builds
    /\ phase = "new"
    /\ _placeholder = undefined
    /\ _preserveBlank = undefined
    /\ _data = 0
    /\ heap = <<>>
    /\ _element = NoElement
    /\ panel = NoPanel
    /\ last = [op |-> "none", arg |-> <<>>, pre |-> NoPre,
               threw |-> FALSE, ret |-> 0, val |-> undefined]

\* new Paragraph({data, config, api}), the host's data and config drawn
\* from the sets given.
Construct(texts, alignments, placeholders, preserveBlanks, defaults) ==
    /\ phase = "new"
    /\ \E text \in texts, alignment \in alignments,
          placeholder \in placeholders, preserveBlank \in preserveBlanks,
          defaultAlignment \in defaults :
          LET data == [text |-> text, alignment |-> alignment]
              config == [placeholder |-> placeholder,
                         preserveBlank |-> preserveBlank,
                         defaultAlignment |-> defaultAlignment]
              r == constructor(build, data, config)
          IN /\ Assign(r)
             /\ phase' = IF r.threw THEN "threw" ELSE "ready"
             /\ last' = Call("constructor",
                             [data |-> data, config |-> config], NoPre, r)
    /\ UNCHANGED <<build, panel>>

\* Construction with any data and any config.
ConstructAny ==
    Construct(DataTexts, DataAlignments, ConfigPlaceholders,
              ConfigPreserveBlanks, ConfigDefaultAlignments)

\* Construction with any data and any default alignment, the config naming
\* no placeholder and no preserveBlank: the calls that follow a construction
\* in Next read neither of the two fields.
ConstructBlock ==
    Construct(DataTexts, DataAlignments, {undefined}, {undefined},
              ConfigDefaultAlignments)

\* A foreign container, or the event's element: any element with markup.
Elements ==
    {[nodeName |-> "DIV", innerHTML |-> m, classList |-> {}] : m \in Markups}

\* The alignments of the records a host writes to the data property.
WrittenAlignments == {undefined, "center"}
WrittenTexts == {Undef} \cup {Str(m) : m \in Markups}

KeyCodes == {"Backspace", "Delete", "KeyA"}

\* The host or the user edits the element's content.
Edit ==
    /\ phase = "ready"
    /\ \E m \in Markups :
          /\ m # _element.innerHTML
          /\ _element' = [_element EXCEPT !.innerHTML = m]
          /\ last' = [op |-> "edit", arg |-> [innerHTML |-> m],
                      pre |-> PreAlignment,
                      threw |-> FALSE, ret |-> 0, val |-> undefined]
    /\ UNCHANGED <<build, phase, _placeholder, _preserveBlank, _data, heap,
                   panel>>

\* The listener of keyup on the element.
OnKeyUp ==
    /\ phase = "ready"
    /\ \E code \in KeyCodes :
          LET r == onKeyUp(This, code)
          IN /\ Assign(r)
             /\ last' = Call("onKeyUp", [code |-> code], PreAlignment, r)
    /\ UNCHANGED <<build, phase, panel>>

\* render(): returns this._element.
Render ==
    /\ phase = "ready"
    /\ last' = [op |-> "render", arg |-> <<>>, pre |-> PreAlignment,
                threw |-> FALSE, ret |-> 0, val |-> "_element"]
    /\ UNCHANGED <<build, phase, _placeholder, _preserveBlank, _data, heap,
                   _element, panel>>

Merge ==
    /\ phase = "ready"
    /\ \E t \in Texts :
          /\ Len(_element.innerHTML) + Len(t) <= MaxLen
          /\ LET data == [text |-> Str(t)]
                 r == merge(This, data)
             IN Assign(r) /\ last' = Call("merge", data, Pre, r)
    /\ UNCHANGED <<build, phase, panel>>

Validate ==
    /\ phase = "ready"
    /\ \E t \in Texts :
          LET savedData == [text |-> Str(t)]
              r == validate(This, savedData)
          IN /\ Assign(r)
             /\ last' = Call("validate", savedData, PreAlignment, r)
    /\ UNCHANGED <<build, phase, panel>>

\* save(toolsContent) with the owned element, or with an other one.
Save ==
    /\ phase = "ready"
    /\ \E toolsContent \in {_element} \cup Elements :
          LET r == save(This, toolsContent)
          IN /\ Assign(r)
             /\ last' = Call("save",
                             [own |-> toolsContent = _element,
                              innerHTML |-> toolsContent.innerHTML], Pre, r)
    /\ UNCHANGED <<build, phase, panel>>

OnPaste ==
    /\ phase = "ready"
    /\ \E detail \in Elements :
          LET r == onPaste(This, detail)
          IN /\ Assign(r)
             /\ last' = Call("onPaste", [innerHTML |-> detail.innerHTML],
                             PreAlignment, r)
    /\ UNCHANGED <<build, phase, panel>>

\* The host reads the data property.
DataGet ==
    /\ phase = "ready"
    /\ LET r == get_data(This)
       IN Assign(r) /\ last' = Call("get data", <<>>, Pre, r)
    /\ UNCHANGED <<build, phase, panel>>

\* The host writes the data property: null, undefined, or a record of its own.
DataSet ==
    /\ phase = "ready"
    /\ \/ \E d \in {null, undefined} :
             LET r == set_data(This, 0)
             IN /\ Assign(r)
                /\ last' = Call("set data", [kind |-> d, value |-> EmptyObject],
                                PreAlignment, r)
       \/ \E text \in WrittenTexts, alignment \in WrittenAlignments :
             LET obj == [text |-> text, alignment |-> alignment]
                 d == Alloc(heap)
                 r == set_data([This EXCEPT !.heap = @ @@ (d :> obj)], d)
             IN /\ Assign(r)
                /\ last' = Call("set data", [kind |-> "object", value |-> obj],
                                PreAlignment, r)
    /\ UNCHANGED <<build, phase, panel>>

\* The host asks for the settings panel, and shows it in place of the last.
RenderSettings ==
    /\ phase = "ready"
    /\ LET r == renderSettings(This)
       IN /\ Assign(r)
          /\ panel' = r.panel
          /\ last' = Call("renderSettings", <<>>, PreAlignment, r)
    /\ UNCHANGED <<build, phase>>

\* The user clicks a button of the panel.
Click ==
    /\ phase = "ready"
    /\ panel.rendered
    /\ \E index \in 1..Len(settings) :
          LET r == click(build, This, panel, index)
          IN /\ Assign(r)
             /\ panel' = r.panel
             /\ last' = Call("click", [name |-> settings[index]],
                             PreAlignment, r)
    /\ UNCHANGED <<build, phase>>

\* The life of a block in the editor.
Next ==
    \/ ConstructBlock
    \/ Edit
    \/ OnKeyUp
    \/ Merge
    \/ Save
    \/ OnPaste
    \/ DataGet
    \/ DataSet
    \/ RenderSettings
    \/ Click

Spec == Init /\ [][Next]_vars

\* A block as constructed: the calls that read what construction resolved.
NextNew ==
    \/ ConstructAny
    \/ DataGet
    \/ Render
    \/ Validate

SpecNew == Init /\ [][NextNew]_vars

-----------------------------------------------------------------------------
(* Properties *)

Ready == phase = "ready"

\* The stored record, and the alignment classes the element carries.
Stored == heap[_data]
AlignmentClasses == _element.classList \cap ALIGNMENTS

\* Only white space, or nothing at all.
IsBlank(t) == \A i \in 1..Len(t) : t[i] \in WhiteSpace

\* C1: the alignment toggle a settings click performs with target v
\* completes, and leaves the element with the class v as its one alignment
\* class and the stored alignment v.
C1_ToggleSetsTheOneClass ==
    (Ready /\ last.op = "click") =>
        /\ ~last.threw
        /\ AlignmentClasses = {last.arg.name}
        /\ Stored.alignment = last.arg.name

\* C2, as claimed: in every state after construction the stored alignment is
\* one of left, center, right.
C2_AlignmentAlwaysAllowed ==
    Ready => Stored.alignment \in ALIGNMENTS

\* C2, amended: construction stores one of left, center, right or the
\* config's defaultAlignment as given; a data write stores the alignment of
\* the record written (none for null, undefined or a record without one);
\* every other call keeps an allowed alignment allowed.
C2_AlignmentAllowedButForConfigAndWrites ==
    Ready =>
        CASE last.op = "constructor" ->
                \/ Stored.alignment \in ALIGNMENTS
                \/ Stored.alignment = last.arg.config.defaultAlignment
          [] last.op = "set data" ->
                Stored.alignment = last.arg.value.alignment
          [] OTHER ->
                last.pre.alignment \in ALIGNMENTS
                    => Stored.alignment \in ALIGNMENTS

C2_Witness ==
    /\ Ready
    /\ last.op = "click"
    /\ last.pre.alignment = "left"
    /\ Stored.alignment = "right"

\* C3: when construction completes the stored alignment is data.alignment
\* if that is one of left, center, right, else config.defaultAlignment if it
\* is provided, else left.
C3_AlignmentPriority ==
    (last.op = "constructor" /\ ~last.threw) =>
        LET d == last.arg.data.alignment
            c == last.arg.config.defaultAlignment
        IN /\ d \in {"left", "center", "right"} => Stored.alignment = d
           /\ (d \notin {"left", "center", "right"} /\ c \notin {undefined, null})
                 => Stored.alignment = c
           /\ (d \notin {"left", "center", "right"} /\ c \in {undefined, null})
                 => Stored.alignment = "left"

C3_Witness ==
    /\ last.op = "constructor"
    /\ ~last.threw
    /\ last.arg.data.alignment = "bogus"
    /\ last.arg.config.defaultAlignment = "center"
    /\ Stored.alignment = "center"

\* C4: validate(savedData) returns false exactly when savedData.text is
\* blank once trimmed and preserveBlank does not hold, and true otherwise;
\* a block constructed with preserveBlank unset validates as one with
\* preserveBlank false.
C4_ValidateRejectsBlankOnly ==
    /\ (Ready /\ last.op = "validate") =>
          /\ ~last.threw
          /\ last.val \in {"true", "false"}
          /\ last.val = "false" <=>
                (IsBlank(last.arg.text.v) /\ _preserveBlank # "true")
    /\ (last.op = "constructor" /\ ~last.threw
          /\ last.arg.config.preserveBlank \in {undefined, "false"}) =>
          \A t \in Texts :
              validate(This, [text |-> Str(t)]).val =
                  IF IsBlank(t) THEN "false" ELSE "true"

C4_Witness ==
    /\ Ready
    /\ last.op = "validate"
    /\ last.arg.text.v = <<" ", " ">>
    /\ _preserveBlank = "false"
    /\ last.val = "false"

\* C5, as claimed: merge(d) leaves the stored text and the element's markup
\* equal to T followed by d.text, T the text the data property read before
\* the call, and leaves the stored alignment as it was.
C5_MergeAppends ==
    (Ready /\ last.op = "merge") =>
        /\ Stored.text = Str(last.pre.innerHTML \o last.arg.text.v)
        /\ _element.innerHTML = last.pre.innerHTML \o last.arg.text.v
        /\ Stored.alignment = last.pre.alignment

\* C5, amended: the stored text is T followed by d.text, T the element's
\* markup before the call; the element's markup is that text as the element
\* serialises it, the very text when d.text is serialised markup; the stored
\* alignment is as it was.
C5_MergeAppendsSerialised ==
    (Ready /\ last.op = "merge") =>
        LET text == last.pre.innerHTML \o last.arg.text.v
        IN /\ ~last.threw
           /\ Stored.text = Str(text)
           /\ _element.innerHTML = SerializeHTML(ParseHTML(text))
           /\ last.arg.text.v \in Markups => _element.innerHTML = text
           /\ Stored.alignment = last.pre.alignment

C5_Witness ==
    /\ Ready
    /\ last.op = "merge"
    /\ last.pre.innerHTML = <<" ">>
    /\ last.arg.text.v = <<"<BR>">>
    /\ Stored.alignment = "center"

\* C6: onPaste(event) leaves the stored text and the element's markup equal
\* to the markup of event.detail.data, and the stored alignment as it was.
C6_PasteOverwritesTextOnly ==
    (Ready /\ last.op = "onPaste") =>
        /\ ~last.threw
        /\ Stored.text = Str(last.arg.innerHTML)
        /\ _element.innerHTML = last.arg.innerHTML
        /\ Stored.alignment = last.pre.alignment

C6_Witness ==
    /\ Ready
    /\ last.op = "onPaste"
    /\ last.arg.innerHTML = <<"<br>", " ">>
    /\ last.pre.alignment = "right"

\* C7: save(container) returns the stored record itself, its text the
\* container's markup, also for a container other than the owned element;
\* the stored alignment is as it was.
C7_SaveReturnsStoredRecord ==
    (Ready /\ last.op = "save") =>
        /\ ~last.threw
        /\ last.ret = _data
        /\ heap[last.ret].text = Str(last.arg.innerHTML)
        /\ Stored.alignment = last.pre.alignment

C7_Witness ==
    /\ Ready
    /\ last.op = "save"
    /\ ~last.arg.own
    /\ last.arg.innerHTML = <<" ", "<br>">>
    /\ _element.innerHTML = <<"<br>">>
    /\ last.ret = _data

\* The record a read of the data property returns in this state.
ReadData == LET r == get_data(This) IN r.this.heap[r.ret]

ConstructedWithRecord ==
    /\ last.op = "constructor"
    /\ ~last.threw
    /\ last.arg.data.text.t = "string"
    /\ last.arg.data.alignment \in ALIGNMENTS

C9_WriteNullEmpties ==
    (Ready /\ last.op = "set data" /\ last.arg.kind \in {null, undefined}) =>
        /\ ~last.threw
        /\ Stored = EmptyObject
        /\ _element.innerHTML = <<>>

C9_Witness ==
    /\ Ready
    /\ last.op = "set data"
    /\ last.arg.kind = null
    /\ last.pre.alignment = "right"
    /\ Stored = EmptyObject

\* C10: when renderSettings() returns the panel, and after the click
\* listener of any of its buttons has run, the one button with the active
\* class is the button named as the stored alignment; after a click on the
\* button named b the stored alignment is b.  (Stated for a block whose
\* stored alignment was one of left, center, right before the call.)
C10_OneActiveButton ==
    (/\ Ready
     /\ last.op \in {"renderSettings", "click"}
     /\ last.pre.alignment \in ALIGNMENTS) =>
        /\ panel.rendered
        /\ panel.active = {Stored.alignment}
        /\ last.op = "click" => Stored.alignment = last.arg.name

\* C11: in every state of a constructed block, reading the data property
\* returns the stored record itself, its text the owned element's markup at
\* that moment, and leaves the stored alignment and the element (markup and
\* classes) as they were; and after the host has read it, the record
\* returned is the stored one, holding the element's markup and the
\* alignment stored before the read, the markup being that before the read.
C11_ReadSyncsTextOnly ==
    Ready =>
        /\ LET r == get_data(This)
           IN /\ ~r.threw
              /\ r.ret = _data
              /\ r.this._data = _data
              /\ r.this.heap[r.ret].text = Str(_element.innerHTML)
              /\ r.this.heap[r.ret].alignment = Stored.alignment
              /\ r.this._element = _element
        /\ last.op = "get data" =>
              /\ ~last.threw
              /\ last.ret = _data
              /\ Stored.text = Str(_element.innerHTML)
              /\ Stored.alignment = last.pre.alignment
              /\ _element.innerHTML = last.pre.innerHTML

\* The host has read the data of a block whose markup is not empty and
\* whose alignment is not the default.
C11_Witness ==
    /\ Ready
    /\ last.op = "get data"
    /\ last.ret = _data
    /\ _element.innerHTML # <<>>
    /\ Stored.text = Str(_element.innerHTML)
    /\ Stored.alignment = "center"

\* A state where the stored text is not the element's markup (after an
\* edit, or a save with a foreign container), which a read brings back.
C11_StaleBeforeRead ==
    /\ Ready
    /\ Stored.text # Str(_element.innerHTML)
    /\ ReadData.text = Str(_element.innerHTML)

\* The values a host leaves out.
Absent == {undefined, null}

\* The defaults of a completed construction: each of data.text,
\* data.alignment (with no config.defaultAlignment either),
\* config.placeholder and config.preserveBlank that the host left undefined
\* or null has its default, preserveBlank's being a value validate() takes
\* for false.
DefaultsResolved ==
    LET d == last.arg.data
        c == last.arg.config
    IN /\ d.text \in {Undef, Null} => Stored.text = Str(<<>>)
       /\ (d.alignment \in Absent /\ c.defaultAlignment \in Absent)
             => Stored.alignment = "left"
       /\ c.placeholder \in Absent => _placeholder = ""
       /\ c.preserveBlank \in Absent => ~JSTruthy(_preserveBlank)

\* C12: a construction in which any of data.text, data.alignment,
\* config.placeholder, config.preserveBlank and config.defaultAlignment is
\* undefined or null raises no exception, and each such value has its
\* default: text empty, alignment left, placeholder empty, preserveBlank
\* false.
C12_AbsentValuesDefaulted ==
    (/\ last.op = "constructor"
     /\ \/ last.arg.data.text \in {Undef, Null}
        \/ last.arg.data.alignment \in Absent
        \/ last.arg.config.placeholder \in Absent
        \/ last.arg.config.preserveBlank \in Absent
        \/ last.arg.config.defaultAlignment \in Absent) =>
        /\ ~last.threw
        /\ DefaultsResolved

\* The class of src/index.js resolves the defaults in every construction.
C12_SourceDefaults ==
    (build = "src" /\ last.op = "constructor") =>
        /\ ~last.threw
        /\ DefaultsResolved

\* The class of src/index.js keeps a preserveBlank of null as null.
C12_NullPreserveBlankKept ==
    /\ Ready
    /\ last.op = "constructor"
    /\ last.arg.config.preserveBlank = null
    /\ _preserveBlank = null

\* C13: when construction has completed, and before any settings click,
\* the owned element, the one render() returns, carries the alignment class
\* equal to the stored alignment and neither of the other two alignment
\* classes.  (No behaviour of SpecNew holds a settings click.)
C13_AlignmentClassFromConstruction ==
    (Ready /\ last.op \in {"constructor", "render"}) =>
        /\ Stored.alignment \in _element.classList
        /\ AlignmentClasses \subseteq {Stored.alignment}

\* The construction of the bundle's class never completes, whatever the
\* data and the config.
C13_BundleNeverCompletes ==
    build = "dist" => phase # "ready"

\* render() returns the element of a block of src/index.js stored as
\* centred, and the element carries the two classes of drawView() only.
C13_NoAlignmentClass ==
    /\ Ready
    /\ last.op = "render"
    /\ Stored.alignment = "center"
    /\ _element.classList = {CSS.wrapper, CSS.block}

====
